---------------------------- MODULE Spec2Model ----------------------------
(***************************************************************************)
(* A model of the luapls front end: lexer -> token stream -> parser ->     *)
(* (AST, diagnostics), and the AST's position accessors and canonical     *)
(* rendering.                                                              *)
(*                                                                         *)
(* Source text is a TLA+ string.  A token is [type, lit, pos]; pos is the  *)
(* zero-based offset of the token's first character.  The parser is a     *)
(* pure function of its token stream: its state is the record             *)
(*   p = [toks, i, errs, st]                                               *)
(* (the token stream, the index of the current token p.tok, the           *)
(* diagnostics, and "ok" | "panic" | "hang"), and every parse function    *)
(* maps such a state to [p |-> state after, n |-> node built].             *)
(***************************************************************************)
EXTENDS Integers, Sequences, FiniteSets, TLC

(***************************************************************************)
(* Bounds of the model.                                                    *)
(***************************************************************************)
\* The most lexemes of a source text drawn from an alphabet.
MaxLexemes == 4

\* The most operands of an operator chain.
MaxOperands == 4

\* The most postfix suffixes after a primary expression.
MaxSuffixes == 3

\* The most fields of a table constructor and parameters of a function.
MaxFields == 3

\* The number of files of the workspace.
MaxFiles == 2

(***************************************************************************)
(* Characters and text.                                                    *)
(***************************************************************************)
Letters ==
    {"a","b","c","d","e","f","g","h","i","j","k","l","m","n","o","p","q",
     "r","s","t","u","v","w","x","y","z","_",
     "A","B","C","D","E","F","T","X"}

Digits == {"0","1","2","3","4","5","6","7","8","9"}

Quotes == {"\"", "'"}

Spaces == {" ", "\n", "\t"}

CharAt(s, k) == SubSeq(s, k, k)

\* The text of s from its k-th character (1-based) to its end.
From(s, k) == SubSeq(s, k, Len(s))

\* The least index >= k of s whose character is not in set cs (Len(s)+1 if none).
RECURSIVE SkipWhile(_, _, _)
SkipWhile(s, k, cs) ==
    IF k <= Len(s) /\ CharAt(s, k) \in cs THEN SkipWhile(s, k + 1, cs) ELSE k

\* The least index >= k of s whose character is in set cs (Len(s)+1 if none).
RECURSIVE SkipUntil(_, _, _)
SkipUntil(s, k, cs) ==
    IF k <= Len(s) /\ CharAt(s, k) \notin cs THEN SkipUntil(s, k + 1, cs) ELSE k

(***************************************************************************)
(* Token model.                                                            *)
(***************************************************************************)
Token(type, lit, pos) == [type |-> type, lit |-> lit, pos |-> pos]

\* Token.End(): the offset just past the token's literal text.
TokenEnd(tok) == tok.pos + Len(tok.lit)

\* The fixed keyword table: reserved word -> token type.
Keywords ==
    [w \in {"and","break","do","else","elseif","end","false","for","function",
            "goto","if","in","local","nil","not","or","repeat","return","then",
            "true","until","while"} |->
        CASE w = "and" -> "AND" [] w = "break" -> "BREAK" [] w = "do" -> "DO"
          [] w = "else" -> "ELSE" [] w = "elseif" -> "ELSEIF" [] w = "end" -> "END"
          [] w = "false" -> "FALSE" [] w = "for" -> "FOR"
          [] w = "function" -> "FUNCTION" [] w = "goto" -> "GOTO" [] w = "if" -> "IF"
          [] w = "in" -> "IN" [] w = "local" -> "LOCAL" [] w = "nil" -> "NIL"
          [] w = "not" -> "NOT" [] w = "or" -> "OR" [] w = "repeat" -> "REPEAT"
          [] w = "return" -> "RETURN" [] w = "then" -> "THEN" [] w = "true" -> "TRUE"
          [] w = "until" -> "UNTIL" [] w = "while" -> "WHILE"]

\* Operators and punctuation of two characters, and of one.
Symbols2 ==
    [s \in {"==","~=","<=",">=","..","::"} |->
        CASE s = "==" -> "EQUAL" [] s = "~=" -> "NEQ" [] s = "<=" -> "LEQ"
          [] s = ">=" -> "GEQ" [] s = ".." -> "CONCAT" [] s = "::" -> "LABEL"]

Symbols1 ==
    [s \in {"+","-","*","/","%","^","#","<",">","=","(",")","{","}","[","]",
            ";",":",",","."} |->
        CASE s = "+" -> "PLUS" [] s = "-" -> "MINUS" [] s = "*" -> "STAR"
          [] s = "/" -> "SLASH" [] s = "%" -> "PERCENT" [] s = "^" -> "CARET"
          [] s = "#" -> "HASH" [] s = "<" -> "LT" [] s = ">" -> "GT"
          [] s = "=" -> "ASSIGN" [] s = "(" -> "LPAREN" [] s = ")" -> "RPAREN"
          [] s = "{" -> "LBRACE" [] s = "}" -> "RBRACE" [] s = "[" -> "LBRACK"
          [] s = "]" -> "RBRACK" [] s = ";" -> "SEMICOLON" [] s = ":" -> "COLON"
          [] s = "," -> "COMMA" [] s = "." -> "DOT"]

\* TokenType.String(): the text of a token type (token.TokenStr).
TokenStr(type) ==
    IF \E w \in DOMAIN Keywords : Keywords[w] = type
    THEN CHOOSE w \in DOMAIN Keywords : Keywords[w] = type
    ELSE IF \E s \in DOMAIN Symbols2 : Symbols2[s] = type
    THEN CHOOSE s \in DOMAIN Symbols2 : Symbols2[s] = type
    ELSE IF \E s \in DOMAIN Symbols1 : Symbols1[s] = type
    THEN CHOOSE s \in DOMAIN Symbols1 : Symbols1[s] = type
    ELSE IF type = "VARARG" THEN "..."
    ELSE type

(***************************************************************************)
(* Lexer.  NextToken(s, k) scans one token of s starting at index k        *)
(* (1-based) and returns [tok, k]: the token and the index after it.       *)
(***************************************************************************)
\* The index of the first character of the next token: whitespace and
\* comments (from "--" to the end of the line) are skipped.
RECURSIVE SkipBlank(_, _)
SkipBlank(s, k) ==
    IF k > Len(s) THEN k
    ELSE IF CharAt(s, k) \in Spaces THEN SkipBlank(s, k + 1)
    ELSE IF k < Len(s) /\ SubSeq(s, k, k + 1) = "--"
         THEN SkipBlank(s, SkipUntil(s, k, {"\n"}))
    ELSE k

\* The end (exclusive) of a numeric literal starting at k: digits and letters
\* (exponents, hexadecimal forms), then an optional fraction.
NumberEnd(s, k) ==
    LET e == SkipWhile(s, k, Digits \cup Letters)
    IN  IF e < Len(s) /\ CharAt(s, e) = "." /\ CharAt(s, e + 1) \in Digits
        THEN SkipWhile(s, e + 1, Digits \cup Letters)
        ELSE e

\* The end (exclusive) of a quoted string starting at k: just past the
\* matching closing quote, or the end of the text when it is unterminated.
StringEnd(s, k) ==
    LET e == SkipUntil(s, k + 1, {CharAt(s, k)})
    IN  IF e <= Len(s) THEN e + 1 ELSE e

NextToken(s, k0) ==
    LET k == SkipBlank(s, k0)
        c == CharAt(s, k)
    IN  IF k > Len(s) THEN [tok |-> Token("EOF", "", k - 1), k |-> k]
        ELSE IF c \in Letters THEN
            LET e == SkipWhile(s, k, Letters \cup Digits)
                w == SubSeq(s, k, e - 1)
            IN  [tok |-> Token(IF w \in DOMAIN Keywords THEN Keywords[w] ELSE "IDENT",
                               w, k - 1),
                 k |-> e]
        ELSE IF c \in Digits THEN
            LET e == NumberEnd(s, k)
            IN  [tok |-> Token("NUMBER", SubSeq(s, k, e - 1), k - 1), k |-> e]
        ELSE IF c \in Quotes THEN
            LET e == StringEnd(s, k)
            IN  [tok |-> Token("STRING", SubSeq(s, k, e - 1), k - 1), k |-> e]
        ELSE IF k + 2 <= Len(s) /\ SubSeq(s, k, k + 2) = "..."
            THEN [tok |-> Token("VARARG", "...", k - 1), k |-> k + 3]
        ELSE IF k < Len(s) /\ SubSeq(s, k, k + 1) \in DOMAIN Symbols2
            THEN [tok |-> Token(Symbols2[SubSeq(s, k, k + 1)], SubSeq(s, k, k + 1), k - 1),
                  k |-> k + 2]
        ELSE IF c \in DOMAIN Symbols1
            THEN [tok |-> Token(Symbols1[c], c, k - 1), k |-> k + 1]
        ELSE [tok |-> Token("ILLEGAL", c, k - 1), k |-> k + 1]

\* The whole token sequence of s from index k, ending in the EOF token.
RECURSIVE LexFrom(_, _)
LexFrom(s, k) ==
    LET r == NextToken(s, k)
    IN  IF r.tok.type = "EOF" THEN <<r.tok>> ELSE <<r.tok>> \o LexFrom(s, r.k)

Lex(s) == LexFrom(s, 1)

(***************************************************************************)
(* Parser state and cursor primitives.  Once st is "panic" (a fatal abort  *)
(* is unwinding) or "hang" (a loop repeats without moving the cursor) the  *)
(* state is frozen: no primitive changes it and every parse function       *)
(* returns at once.                                                        *)
(***************************************************************************)
New(src) == [toks |-> Lex(src), i |-> 1, errs |-> <<>>, st |-> "ok"]

\* p.tok: the current token.
tok(p) == p.toks[p.i]

tokIs(p, type) == tok(p).type = type

\* p.next(): advance the cursor; the lexer keeps returning EOF at the end.
next(p) ==
    IF p.st # "ok" THEN p
    ELSE [p EXCEPT !.i = IF p.i < Len(p.toks) THEN p.i + 1 ELSE p.i]

\* p.errors = append(p.errors, msg)
addError(p, msg) ==
    IF p.st # "ok" THEN p ELSE [p EXCEPT !.errs = Append(p.errs, msg)]

invalidTokenError(p, expected, actual) ==
    addError(p, "expected " \o expected \o ", found " \o actual)

\* p.expect(type): consume the current token if it has the type; otherwise
\* record a diagnostic and leave the cursor where it is.
expect(p, type) ==
    IF tokIs(p, type) THEN next(p) ELSE invalidTokenError(p, type, tok(p).type)

\* panic(err): the abort unwinds out of the parse call.
Panic(p) == IF p.st # "ok" THEN p ELSE [p EXCEPT !.st = "panic"]

\* The loop whose iteration ended in state p with the cursor where the
\* iteration found it never leaves: every later iteration is the same.
Hang(p) == IF p.st # "ok" THEN p ELSE [p EXCEPT !.st = "hang"]

\* The state after one loop iteration that started with the cursor at i0.
Progress(p, i0) == IF p.i = i0 THEN Hang(p) ELSE p

Ret(p, n) == [p |-> p, n |-> n]

\* K applied to the value of r: r is computed once and bound to the name the
\* LAMBDA K gives it (Go's  r := ...).
Bind(r, K(_)) == CHOOSE v \in {K(x) : x \in {r}} : TRUE

(***************************************************************************)
(* Operator tables (expression.go).                                        *)
(***************************************************************************)
LOWEST == 1
OR == 2
AND == 3
CMP == 4
CONCAT == 5
SUM == 6
PRODUCT == 7
UNARY == 8
POW == 9

\* precedences with the multiplicative operators entered at the additive
\* level.
precedencesFlat ==
    [t \in {"OR","AND","LT","GT","LEQ","GEQ","NEQ","EQUAL","CONCAT","PLUS","MINUS",
            "STAR","SLASH","PERCENT","NOT","HASH","CARET"} |->
        CASE t = "OR" -> OR
          [] t = "AND" -> AND
          [] t \in {"LT","GT","LEQ","GEQ","NEQ","EQUAL"} -> CMP
          [] t = "CONCAT" -> CONCAT
          [] t \in {"PLUS","MINUS","STAR","SLASH","PERCENT"} -> SUM
          [] t \in {"NOT","HASH"} -> UNARY
          [] t = "CARET" -> POW]

precedences ==
    [t \in {"OR","AND","LT","GT","LEQ","GEQ","NEQ","EQUAL","CONCAT","PLUS","MINUS",
            "STAR","SLASH","PERCENT","NOT","HASH","CARET"} |->
        CASE t = "OR" -> OR
          [] t = "AND" -> AND
          [] t \in {"LT","GT","LEQ","GEQ","NEQ","EQUAL"} -> CMP
          [] t = "CONCAT" -> CONCAT
          [] t \in {"PLUS","MINUS"} -> SUM
          [] t \in {"STAR","SLASH","PERCENT"} -> PRODUCT
          [] t \in {"NOT","HASH"} -> UNARY
          [] t = "CARET" -> POW]

binaryOperators ==
    {"AND","CARET","CONCAT","EQUAL","GEQ","GT","LEQ","LT","MINUS","NEQ","OR",
     "PERCENT","PLUS","SLASH","STAR"}

isBinaryOperator(type) == type \in binaryOperators

\* isRightAssociative without the concatenation operator.
isRightAssociativePowOnly(type) == type = "CARET"

isRightAssociative(type) == type = "CARET" \/ type = "CONCAT"

tableSep == {"COMMA", "SEMICOLON"}

\* p.tokPrecedence(): the table's entry for the current token, else LOWEST.
tokPrecedence(p) ==
    IF tok(p).type \in DOMAIN precedences THEN precedences[tok(p).type] ELSE LOWEST

\* The tokens that close a block.
blockEnd == {"END", "ELSE", "ELSEIF", "UNTIL", "EOF"}

(***************************************************************************)
(* Conversions of the Go library used by the parser.                       *)
(***************************************************************************)
\* strconv.ParseBool succeeds exactly on these texts.
ParseBoolTrue == {"1", "t", "T", "TRUE", "true", "True"}

ParseBoolFalse == {"0", "f", "F", "FALSE", "false", "False"}

\* Whether s, from index k, is one or more decimal digits to its end.
AllDigits(s, k) == k <= Len(s) /\ SkipWhile(s, k, Digits) = Len(s) + 1

\* Whether strconv.ParseFloat(s, 64) succeeds, for the texts the lexer hands
\* over as NUMBER (a digit first): decimal digits, with an optional fraction.
\* A hexadecimal integer such as 0x1F or a dangling exponent such as 1e is
\* rejected (a hexadecimal mantissa needs a p exponent).
ParseFloatOk(s) ==
    LET e == SkipWhile(s, 1, Digits)
    IN  /\ e > 1
        /\ \/ e = Len(s) + 1
           \/ CharAt(s, e) = "." /\ AllDigits(s, e + 1)

\* strings.Trim(s, cutset): s without its leading and trailing characters in cs.
RECURSIVE TrimRight(_, _)
TrimRight(s, cs) ==
    IF Len(s) > 0 /\ CharAt(s, Len(s)) \in cs
    THEN TrimRight(SubSeq(s, 1, Len(s) - 1), cs) ELSE s

Trim(s, cs) == TrimRight(From(s, SkipWhile(s, 1, cs)), cs)

(***************************************************************************)
(* AST nodes (ast.go).  A field the parser's composite literal leaves out  *)
(* has Go's zero value: 0 for a position, FALSE for a flag.                *)
(***************************************************************************)
\* A nil node: the nil interface, or a nil pointer of a node type.
Nil == [kind |-> "nil"]

IsNil(n) == n.kind = "nil"

NoToken == [type |-> "none", lit |-> "", pos |-> 0]

Block(stmts, startPos) == [kind |-> "Block", Stmts |-> stmts, StartPos |-> startPos]

Identifier(lit, startPos) ==
    [kind |-> "Identifier", Literal |-> lit, StartPos |-> startPos]

NumberLiteral(lit, startPos) ==
    [kind |-> "NumberLiteral", Literal |-> lit, StartPos |-> startPos]

StringLiteral(value, startPos) ==
    [kind |-> "StringLiteral", Value |-> value, StartPos |-> startPos]

BooleanLiteral(value, startPos) ==
    [kind |-> "BooleanLiteral", Value |-> value, StartPos |-> startPos]

BinaryExpression(left, operator, right) ==
    [kind |-> "BinaryExpression", Left |-> left, Operator |-> operator, Right |-> right]

UnaryExpression(operator, right, startPos) ==
    [kind |-> "UnaryExpression", Operator |-> operator, Right |-> right,
     StartPos |-> startPos]

FunctionCall(left, args, endPos) ==
    [kind |-> "FunctionCall", Left |-> left, Args |-> args, EndPos |-> endPos]

FunctionExpression(params, body, startPos, endPos) ==
    [kind |-> "FunctionExpression", Params |-> params, Vararg |-> FALSE, Body |-> body,
     StartPos |-> startPos, EndPos |-> endPos]

IndexExpression(left, inner, isBrackets, isColon, endPos) ==
    [kind |-> "IndexExpression", Left |-> left, Inner |-> inner,
     IsBrackets |-> isBrackets, IsColon |-> isColon, EndPos |-> endPos]

TableLiteral(fields, startPos, endPos) ==
    [kind |-> "TableLiteral", Fields |-> fields, StartPos |-> startPos, EndPos |-> endPos]

TableField(key, value, startPos) ==
    [kind |-> "TableField", Key |-> key, Value |-> value, StartPos |-> startPos]

\* Statements.
AssignmentStatement(vs, exps) ==
    [kind |-> "AssignmentStatement", Vars |-> vs, Exps |-> exps]

BreakStatement(startPos) == [kind |-> "BreakStatement", StartPos |-> startPos]

DoStatement(body, startPos, endPos) ==
    [kind |-> "DoStatement", Body |-> body, StartPos |-> startPos, EndPos |-> endPos]

ExpressionStatement(exp) == [kind |-> "ExpressionStatement", Exp |-> exp]

IfStatement(clauses) == [kind |-> "IfStatement", Clauses |-> clauses]

IfClause(condition, body, startPos, endPos) ==
    [kind |-> "IfClause", Condition |-> condition, Body |-> body,
     StartPos |-> startPos, EndPos |-> endPos]

LocalStatement(names, exps, startPos) ==
    [kind |-> "LocalStatement", Names |-> names, Exps |-> exps, StartPos |-> startPos]

RepeatStatement(body, condition, startPos) ==
    [kind |-> "RepeatStatement", Body |-> body, Condition |-> condition,
     StartPos |-> startPos]

ReturnStatement(exps, startPos) ==
    [kind |-> "ReturnStatement", Exps |-> exps, StartPos |-> startPos]

WhileStatement(condition, body, startPos, endPos) ==
    [kind |-> "WhileStatement", Condition |-> condition, Body |-> body,
     StartPos |-> startPos, EndPos |-> endPos]

ForStatement(name, start, finish, step, body, startPos, endPos) ==
    [kind |-> "ForStatement", Name |-> name, Start |-> start, Finish |-> finish,
     Step |-> step, Body |-> body, StartPos |-> startPos, EndPos |-> endPos]

ForInStatement(names, exps, body, startPos, endPos) ==
    [kind |-> "ForInStatement", Names |-> names, Exps |-> exps, Body |-> body,
     StartPos |-> startPos, EndPos |-> endPos]

FunctionStatement(left, params, body, isLocal, startPos, endPos) ==
    [kind |-> "FunctionStatement", Left |-> left, Params |-> params, Vararg |-> FALSE,
     Body |-> body, IsLocal |-> isLocal, StartPos |-> startPos, EndPos |-> endPos]

GotoStatement(name, startPos) ==
    [kind |-> "GotoStatement", Name |-> name, StartPos |-> startPos]

LabelStatement(name, startPos, endPos) ==
    [kind |-> "LabelStatement", Name |-> name, StartPos |-> startPos, EndPos |-> endPos]

\* Invalid (lsp/server.go): Exps, or else Token.
Invalid(exps, token) == [kind |-> "Invalid", Exps |-> exps, Token |-> token]

(***************************************************************************)
(* Expression parsing (parser/expression.go).  The composite literals of   *)
(* this file set no position field, so StartPos and EndPos of the nodes    *)
(* built here are 0.  NumberLiteral.Value is read nowhere and is left out. *)
(***************************************************************************)
RECURSIVE parseExpression(_, _)
RECURSIVE parseExpressionLoop(_, _, _)
RECURSIVE parseExpressionListLoop(_, _)
RECURSIVE parseTableLiteralLoop(_, _)
RECURSIVE parseTableField(_)
RECURSIVE ParseBlock(_)
RECURSIVE ParseBlockLoop(_, _)
RECURSIVE parseStatement(_)
RECURSIVE parseIfClauses(_, _)

parseIdentifier(p) ==
    IF tokIs(p, "IDENT")
    THEN Ret(next(p), Identifier(tok(p).lit, 0))
    ELSE Ret(next(invalidTokenError(p, "IDENT", tok(p).type)), Nil)

parseNumberLiteral(p) ==
    IF ~ParseFloatOk(tok(p).lit)
    THEN Ret(addError(p, "could not parse " \o tok(p).lit), Nil)
    ELSE Ret(next(p), NumberLiteral(tok(p).lit, 0))

parseStringLiteral(p) == Ret(next(p), StringLiteral(Trim(tok(p).lit, Quotes), 0))

\* parseBooleanLiteral testing the converted value instead of the conversion
\* error.
parseBooleanLiteralOnValue(p) ==
    IF tok(p).lit \notin ParseBoolTrue
    THEN Ret(Panic(p), Nil)
    ELSE Ret(next(p), BooleanLiteral(TRUE, 0))

parseBooleanLiteral(p) ==
    IF tok(p).lit \notin ParseBoolTrue \cup ParseBoolFalse
    THEN Ret(Panic(p), Nil)
    ELSE Ret(next(p), BooleanLiteral(tok(p).lit \in ParseBoolTrue, 0))

parseExpressionList(p) ==
    Bind(parseExpression(p, LOWEST), LAMBDA first :
    parseExpressionListLoop(first.p, <<first.n>>))

\* The loop of parseExpressionList without its p.next().
parseExpressionListLoopNoNext(p, exps) ==
    IF p.st = "ok" /\ tokIs(p, "COMMA")
    THEN Bind(parseExpression(p, LOWEST), LAMBDA r :
         parseExpressionListLoop(Progress(r.p, p.i), Append(exps, r.n)))
    ELSE Ret(p, exps)

\* The loop of parseExpressionList (lines 61-64).
parseExpressionListLoop(p, exps) ==
    IF p.st = "ok" /\ tokIs(p, "COMMA")
    THEN Bind(parseExpression(next(p), LOWEST), LAMBDA r :
         parseExpressionListLoop(Progress(r.p, p.i), Append(exps, r.n)))
    ELSE Ret(p, exps)

\* The loop of parseNameList (lines 73-76).
RECURSIVE parseNameListLoop(_, _)
parseNameListLoop(p, list) ==
    IF p.st = "ok" /\ tokIs(p, "COMMA")
    THEN Bind(parseIdentifier(next(p)), LAMBDA r :
         parseNameListLoop(Progress(r.p, p.i), Append(list, r.n)))
    ELSE Ret(p, list)

parseNameList(p) ==
    Bind(parseIdentifier(p), LAMBDA first :
    parseNameListLoop(first.p, <<first.n>>))

parseBinaryExpression(p, left) ==
    Bind(parseExpression(next(p), tokPrecedence(p)), LAMBDA right :
    Ret(right.p, BinaryExpression(left, tok(p).type, right.n)))

parseFunctionExpression(p) ==
    Bind(parseNameList(expect(expect(p, "FUNCTION"), "LPAREN")), LAMBDA params :
    Bind(ParseBlock(expect(params.p, "RPAREN")), LAMBDA body :
    Ret(expect(body.p, "END"), FunctionExpression(params.n, body.n, 0, 0))))

parseSurroundingExpression(p) ==
    Bind(parseExpression(expect(p, "LPAREN"), LOWEST), LAMBDA exp :
    Ret(expect(exp.p, "RPAREN"), exp.n))

parseUnaryExpression(p) ==
    Bind(parseExpression(next(p), UNARY), LAMBDA right :
    Ret(right.p, UnaryExpression(tok(p).type, right.n, 0)))

parseTableLiteral(p) ==
    Bind(parseTableField(expect(p, "LBRACE")), LAMBDA first :
    Bind(parseTableLiteralLoop(first.p, <<first.n>>), LAMBDA rest :
    Ret(expect(rest.p, "RBRACE"), TableLiteral(rest.n, 0, 0))))

\* The loop of parseTableLiteral (lines 177-184).
parseTableLiteralLoop(p, fields) ==
    IF p.st = "ok" /\ tok(p).type \in tableSep
    THEN IF tokIs(next(p), "RBRACE") THEN Ret(next(p), fields)
         ELSE Bind(parseTableField(next(p)), LAMBDA r :
              parseTableLiteralLoop(Progress(r.p, p.i), Append(fields, r.n)))
    ELSE Ret(p, fields)

\* parseTableField after its key or value expression leftExp (lines 199-211);
\* p is the state after that expression.
parseTableFieldRest(p, needClosingBracket, leftExp) ==
    IF ~needClosingBracket /\ (tok(p).type \in tableSep \/ tokIs(p, "RBRACE"))
    THEN Ret(p, TableField(Nil, leftExp, 0))
    ELSE Bind(parseExpression(
                  expect(IF needClosingBracket THEN expect(p, "RBRACK") ELSE p,
                         "ASSIGN"),
                  LOWEST), LAMBDA rightExp :
         Ret(rightExp.p, TableField(leftExp, rightExp.n, 0)))

parseTableField(p) ==
    Bind(parseExpression(IF tokIs(p, "LBRACK") THEN next(p) ELSE p, LOWEST),
         LAMBDA leftExp :
    parseTableFieldRest(leftExp.p, tokIs(p, "LBRACK"), leftExp.n))

\* p.parseFunctionCall(left): the argument list of a call, a single string
\* literal or a parenthesized, possibly empty, expression list.
parseFunctionCall(p, left) ==
    IF tokIs(p, "STRING")
    THEN Bind(parseStringLiteral(p), LAMBDA arg :
         Ret(arg.p, FunctionCall(left, <<arg.n>>, 0)))
    ELSE Bind(IF tokIs(expect(p, "LPAREN"), "RPAREN")
              THEN Ret(expect(p, "LPAREN"), <<>>)
              ELSE parseExpressionList(expect(p, "LPAREN")), LAMBDA args :
         Ret(expect(args.p, "RPAREN"), FunctionCall(left, args.n, 0)))

\* The tokens on which parseExpression's switch parses a primary expression.
PrimaryStart ==
    {"FUNCTION","TRUE","FALSE","HASH","IDENT","LPAREN","MINUS","NOT","NUMBER",
     "STRING","LBRACE"}

\* The switch of parseExpression (lines 14-38), on a token of PrimaryStart.
parsePrimary(p) ==
    CASE tokIs(p, "FUNCTION") -> parseFunctionExpression(p)
      [] tok(p).type \in {"TRUE", "FALSE"} -> parseBooleanLiteral(p)
      [] tok(p).type \in {"HASH", "MINUS", "NOT"} -> parseUnaryExpression(p)
      [] tokIs(p, "IDENT") -> parseIdentifier(p)
      [] tokIs(p, "LPAREN") -> parseSurroundingExpression(p)
      [] tokIs(p, "NUMBER") -> parseNumberLiteral(p)
      [] tokIs(p, "STRING") -> parseStringLiteral(p)
      [] tokIs(p, "LBRACE") -> parseTableLiteral(p)

\* What follows the switch (lines 40-55): a call's arguments, or else the
\* loop over the binary operators.
parseExpressionTail(p, precedence, leftExp) ==
    IF p.st # "ok" THEN Ret(p, leftExp)
    ELSE IF tokIs(p, "LPAREN") \/ tokIs(p, "STRING")
    THEN parseFunctionCall(p, leftExp)
    ELSE parseExpressionLoop(p, precedence, leftExp)

parseExpression(p, precedence) ==
    IF p.st # "ok" THEN Ret(p, Nil)
    ELSE IF tok(p).type \notin PrimaryStart
    THEN Ret(addError(p, "unable to parse unary expression for token: " \o tok(p).type),
             Nil)
    ELSE Bind(parsePrimary(p), LAMBDA leftExp :
         parseExpressionTail(leftExp.p, precedence, leftExp.n))

\* The binary-operator loop of parseExpression (lines 44-53).
parseExpressionLoop(p, precedence, leftExp) ==
    IF p.st = "ok" /\ isBinaryOperator(tok(p).type)
    THEN IF precedence >= tokPrecedence(p)
                            + (IF isRightAssociative(tok(p).type) THEN 1 ELSE 0)
         THEN Ret(p, leftExp)
         ELSE Bind(parseBinaryExpression(p, leftExp), LAMBDA r :
              parseExpressionLoop(Progress(r.p, p.i), precedence, r.n))
    ELSE Ret(p, leftExp)

(***************************************************************************)
(* Statement parsing: the statement dispatch, the block loop and the       *)
(* recovery policy of the parser's design (section 4.2).                   *)
(***************************************************************************)
\* The end of a construct closed by a token of the given type: the end of
\* that token, or where it is missing.
ClosedAt(p, type) == IF tokIs(p, type) THEN TokenEnd(tok(p)) ELSE tok(p).pos

\* p.peek: the token after the current one.
peek(p) == p.toks[IF p.i < Len(p.toks) THEN p.i + 1 ELSE p.i]

parseBreakStatement(p) == Ret(next(p), BreakStatement(tok(p).pos))

parseDoStatement(p) ==
    Bind(ParseBlock(next(p)), LAMBDA body :
    Ret(expect(body.p, "END"),
        DoStatement(body.n, tok(p).pos, ClosedAt(body.p, "END"))))

parseWhileStatement(p) ==
    Bind(parseExpression(next(p), LOWEST), LAMBDA cond :
    Bind(ParseBlock(expect(cond.p, "DO")), LAMBDA body :
    Ret(expect(body.p, "END"),
        WhileStatement(cond.n, body.n, tok(p).pos, ClosedAt(body.p, "END")))))

parseRepeatStatement(p) ==
    Bind(ParseBlock(next(p)), LAMBDA body :
    Bind(parseExpression(expect(body.p, "UNTIL"), LOWEST), LAMBDA cond :
    Ret(cond.p, RepeatStatement(body.n, cond.n, tok(p).pos))))

\* One clause of an if statement, at its if, elseif or else keyword.
parseIfClause(p) ==
    Bind(IF tokIs(p, "ELSE") THEN Ret(next(p), Nil)
         ELSE parseExpression(next(p), LOWEST), LAMBDA cond :
    Bind(ParseBlock(IF tokIs(p, "ELSE") THEN cond.p ELSE expect(cond.p, "THEN")),
         LAMBDA body :
    Ret(body.p, IfClause(cond.n, body.n, tok(p).pos, tok(body.p).pos))))

\* The elseif and else clauses of an if statement.
parseIfClauses(p, clauses) ==
    IF p.st = "ok" /\ tok(p).type \in {"ELSEIF", "ELSE"}
    THEN Bind(parseIfClause(p), LAMBDA r :
         IF tokIs(p, "ELSE") THEN Ret(r.p, Append(clauses, r.n))
         ELSE parseIfClauses(Progress(r.p, p.i), Append(clauses, r.n)))
    ELSE Ret(p, clauses)

parseIfStatement(p) ==
    Bind(parseIfClause(p), LAMBDA first :
    Bind(parseIfClauses(first.p, <<first.n>>), LAMBDA rest :
    Ret(expect(rest.p, "END"), IfStatement(rest.n))))

\* A function statement at its function keyword; startPos is where the
\* statement began (at local, for a local function).
parseFunctionStatement(p, isLocal, startPos) ==
    Bind(parseIdentifier(next(p)), LAMBDA left :
    Bind(parseNameList(expect(left.p, "LPAREN")), LAMBDA params :
    Bind(ParseBlock(expect(params.p, "RPAREN")), LAMBDA body :
    Ret(expect(body.p, "END"),
        FunctionStatement(left.n, params.n, body.n, isLocal, startPos,
                          ClosedAt(body.p, "END"))))))

parseLocalStatement(p) ==
    IF tokIs(next(p), "FUNCTION")
    THEN parseFunctionStatement(next(p), TRUE, tok(p).pos)
    ELSE Bind(parseNameList(next(p)), LAMBDA names :
         Bind(IF tokIs(names.p, "ASSIGN") THEN parseExpressionList(next(names.p))
              ELSE Ret(names.p, <<>>), LAMBDA exps :
         Ret(exps.p, LocalStatement(names.n, exps.n, tok(p).pos))))

parseGotoStatement(p) ==
    Bind(parseIdentifier(next(p)), LAMBDA name :
    Ret(name.p, GotoStatement(name.n, tok(p).pos)))

parseLabelStatement(p) ==
    Bind(parseIdentifier(next(p)), LAMBDA name :
    Ret(expect(name.p, "LABEL"),
        LabelStatement(name.n, tok(p).pos, ClosedAt(name.p, "LABEL"))))

parseNumericFor(p) ==
    Bind(parseIdentifier(next(p)), LAMBDA name :
    Bind(parseExpression(expect(name.p, "ASSIGN"), LOWEST), LAMBDA start :
    Bind(parseExpression(expect(start.p, "COMMA"), LOWEST), LAMBDA finish :
    Bind(IF tokIs(finish.p, "COMMA") THEN parseExpression(next(finish.p), LOWEST)
         ELSE Ret(finish.p, Nil), LAMBDA step :
    Bind(ParseBlock(expect(step.p, "DO")), LAMBDA body :
    Ret(expect(body.p, "END"),
        ForStatement(name.n, start.n, finish.n, step.n, body.n, tok(p).pos,
                     ClosedAt(body.p, "END"))))))))

parseGenericFor(p) ==
    Bind(parseNameList(next(p)), LAMBDA names :
    Bind(parseExpressionList(expect(names.p, "IN")), LAMBDA exps :
    Bind(ParseBlock(expect(exps.p, "DO")), LAMBDA body :
    Ret(expect(body.p, "END"),
        ForInStatement(names.n, exps.n, body.n, tok(p).pos,
                       ClosedAt(body.p, "END"))))))

\* A for statement: numeric when "=" follows the name, generic otherwise.
parseForStatement(p) ==
    IF peek(next(p)).type = "ASSIGN" THEN parseNumericFor(p) ELSE parseGenericFor(p)

parseReturnStatement(p) ==
    Bind(IF tok(next(p)).type \in blockEnd \cup {"SEMICOLON"} THEN Ret(next(p), <<>>)
         ELSE parseExpressionList(next(p)), LAMBDA exps :
    Ret(exps.p, ReturnStatement(exps.n, tok(p).pos)))

\* An assignment or a call statement: a prefix expression list first, then
\* the decision on the token that follows.  A failure is wrapped in an
\* Invalid node holding what was parsed, or the offending token when nothing
\* was.
parseExpressionStatement(p) ==
    Bind(parseExpressionList(p), LAMBDA exps :
    IF tokIs(exps.p, "ASSIGN")
    THEN Bind(parseExpressionList(next(exps.p)), LAMBDA rhs :
         Ret(rhs.p, AssignmentStatement(exps.n, rhs.n)))
    ELSE IF Len(exps.n) = 1 /\ exps.n[1].kind = "FunctionCall"
    THEN Ret(exps.p, ExpressionStatement(exps.n[1]))
    ELSE IF exps.p.i = p.i
    THEN Ret(exps.p, Invalid(<<>>, tok(p)))
    ELSE Ret(addError(exps.p, "expected statement, found expression"),
             Invalid(exps.n, NoToken)))

\* The statement dispatch on the current token.
parseStatementSwitch(p) ==
    CASE tokIs(p, "BREAK") -> parseBreakStatement(p)
      [] tokIs(p, "DO") -> parseDoStatement(p)
      [] tokIs(p, "FOR") -> parseForStatement(p)
      [] tokIs(p, "FUNCTION") -> parseFunctionStatement(p, FALSE, tok(p).pos)
      [] tokIs(p, "GOTO") -> parseGotoStatement(p)
      [] tokIs(p, "IF") -> parseIfStatement(p)
      [] tokIs(p, "LABEL") -> parseLabelStatement(p)
      [] tokIs(p, "LOCAL") -> parseLocalStatement(p)
      [] tokIs(p, "REPEAT") -> parseRepeatStatement(p)
      [] tokIs(p, "RETURN") -> parseReturnStatement(p)
      [] tokIs(p, "WHILE") -> parseWhileStatement(p)
      [] OTHER -> parseExpressionStatement(p)

\* One statement, and the optional separator after it.
parseStatement(p) ==
    IF p.st # "ok" THEN Ret(p, Nil)
    ELSE Bind(parseStatementSwitch(p), LAMBDA r :
         Ret(IF tokIs(r.p, "SEMICOLON") THEN next(r.p) ELSE r.p, r.n))

\* The tokens a statement can plausibly start at, or a block end at.
StatementBoundary ==
    blockEnd \cup {"BREAK","DO","FOR","FUNCTION","GOTO","IF","LABEL","LOCAL","REPEAT",
                   "RETURN","WHILE","IDENT","LPAREN","SEMICOLON"}

\* Recovery at the statement-sequence level: skip forward to the next
\* plausible statement boundary.
RECURSIVE skipToBoundary(_)
skipToBoundary(p) ==
    IF p.st = "ok" /\ tok(p).type \notin StatementBoundary
    THEN skipToBoundary(next(p)) ELSE p

\* The statement loop of a block.
ParseBlockLoop(p, stmts) ==
    IF p.st = "ok" /\ tok(p).type \notin blockEnd
    THEN Bind(parseStatement(p), LAMBDA r :
         ParseBlockLoop(
             Progress(IF r.n.kind = "Invalid" THEN skipToBoundary(r.p) ELSE r.p, p.i),
             Append(stmts, r.n)))
    ELSE Ret(p, stmts)

ParseBlock(p) ==
    Bind(ParseBlockLoop(p, <<>>), LAMBDA r :
    Ret(r.p, Block(r.n, tok(p).pos)))

\* ParseFile: the top-level block, which the end of the input must close.
ParseFile(p) ==
    Bind(ParseBlock(p), LAMBDA block :
    Ret(expect(block.p, "EOF"), block.n))

(***************************************************************************)
(* The AST's accessors (ast/ast.go; Invalid from lsp/server.go).           *)
(*                                                                         *)
(* Pos(n), End(n) and String(n) are the values of the Go methods; a method *)
(* that dereferences a nil child, or indexes an empty list, aborts, which  *)
(* PosOK(n), EndOK(n) and StringOK(n) decide: the value is meaningful only *)
(* where they hold.                                                        *)
(***************************************************************************)
Last(seq) == seq[Len(seq)]

RECURSIVE PosOK(_)
RECURSIVE Pos(_)
RECURSIVE EndOK(_)
RECURSIVE End(_)
RECURSIVE String(_)
RECURSIVE StringOK(_)
RECURSIVE Join(_, _)

\* strings.Join(items, sep)
Join(items, sep) ==
    IF Len(items) = 0 THEN ""
    ELSE IF Len(items) = 1 THEN items[1]
    ELSE items[1] \o sep \o Join(Tail(items), sep)

PosOK(n) ==
    CASE n.kind = "nil" -> FALSE
      [] n.kind = "AssignmentStatement" -> Len(n.Vars) > 0 /\ PosOK(n.Vars[1])
      [] n.kind = "ExpressionStatement" -> PosOK(n.Exp)
      [] n.kind = "IfStatement" -> Len(n.Clauses) > 0 /\ PosOK(n.Clauses[1])
      [] n.kind \in {"BinaryExpression", "FunctionCall", "IndexExpression"} ->
            PosOK(n.Left)
      [] n.kind = "Invalid" ->
            n.Token # NoToken \/ (Len(n.Exps) > 0 /\ PosOK(n.Exps[1]))
      [] OTHER -> TRUE

Pos(n) ==
    CASE n.kind = "AssignmentStatement" -> Pos(n.Vars[1])
      [] n.kind = "ExpressionStatement" -> Pos(n.Exp)
      [] n.kind = "IfStatement" -> Pos(n.Clauses[1])
      [] n.kind \in {"BinaryExpression", "FunctionCall", "IndexExpression"} ->
            Pos(n.Left)
      [] n.kind = "Invalid" ->
            IF n.Token # NoToken THEN n.Token.pos ELSE Pos(n.Exps[1])
      [] OTHER -> n.StartPos

StringOK(n) ==
    LET all(list) == \A k \in DOMAIN list : StringOK(list[k])
    IN  CASE n.kind = "nil" -> FALSE
          [] n.kind = "Block" -> all(n.Stmts)
          [] n.kind = "AssignmentStatement" -> all(n.Vars) /\ all(n.Exps)
          [] n.kind \in {"DoStatement"} -> StringOK(n.Body)
          [] n.kind = "ExpressionStatement" -> StringOK(n.Exp)
          [] n.kind = "ForStatement" ->
                /\ StringOK(n.Name) /\ StringOK(n.Start) /\ StringOK(n.Finish)
                /\ (IsNil(n.Step) \/ StringOK(n.Step)) /\ StringOK(n.Body)
          [] n.kind = "ForInStatement" -> all(n.Names) /\ all(n.Exps) /\ StringOK(n.Body)
          [] n.kind = "FunctionStatement" ->
                StringOK(n.Left) /\ all(n.Params) /\ StringOK(n.Body)
          [] n.kind \in {"GotoStatement", "LabelStatement"} -> StringOK(n.Name)
          [] n.kind = "IfStatement" -> all(n.Clauses)
          [] n.kind = "IfClause" ->
                (IsNil(n.Condition) \/ StringOK(n.Condition)) /\ StringOK(n.Body)
          [] n.kind = "LocalStatement" -> all(n.Names) /\ all(n.Exps)
          [] n.kind \in {"RepeatStatement", "WhileStatement"} ->
                StringOK(n.Body) /\ StringOK(n.Condition)
          [] n.kind = "ReturnStatement" -> all(n.Exps)
          [] n.kind = "BinaryExpression" -> StringOK(n.Left) /\ StringOK(n.Right)
          [] n.kind = "FunctionCall" -> StringOK(n.Left) /\ all(n.Args)
          [] n.kind = "FunctionExpression" -> all(n.Params) /\ StringOK(n.Body)
          [] n.kind = "IndexExpression" -> StringOK(n.Left) /\ StringOK(n.Inner)
          [] n.kind = "UnaryExpression" -> StringOK(n.Right)
          [] n.kind = "TableLiteral" -> all(n.Fields)
          [] n.kind = "TableField" ->
                (IsNil(n.Key) \/ StringOK(n.Key)) /\ StringOK(n.Value)
          [] n.kind = "Invalid" -> FALSE
          [] OTHER -> TRUE

String(n) ==
    LET nodeListToString(nodes) ==
            Join([k \in DOMAIN nodes |-> String(nodes[k])], ", ")
    IN  CASE n.kind = "Block" ->
                Trim(Join([k \in DOMAIN n.Stmts |-> String(n.Stmts[k]) \o "\n"], ""),
                     Spaces)
          [] n.kind = "AssignmentStatement" ->
                nodeListToString(n.Vars) \o " = " \o nodeListToString(n.Exps)
          [] n.kind = "BreakStatement" -> TokenStr("BREAK")
          [] n.kind = "DoStatement" -> "do\n" \o String(n.Body) \o "\nend"
          [] n.kind = "ExpressionStatement" -> String(n.Exp)
          [] n.kind = "ForStatement" ->
                "for " \o String(n.Name) \o " = " \o String(n.Start) \o ", "
                    \o String(n.Finish)
                    \o (IF ~IsNil(n.Step) THEN ", " \o String(n.Step) ELSE "")
                    \o " do\n" \o String(n.Body) \o "\nend"
          [] n.kind = "ForInStatement" ->
                "for " \o nodeListToString(n.Names) \o " in " \o nodeListToString(n.Exps)
                    \o " do\n" \o String(n.Body) \o "\nend"
          [] n.kind = "FunctionStatement" ->
                (IF n.IsLocal THEN "local " ELSE "") \o "function " \o String(n.Left)
                    \o "(" \o nodeListToString(n.Params) \o ")\n" \o String(n.Body)
                    \o "\nend"
          [] n.kind = "GotoStatement" -> "goto " \o String(n.Name)
          [] n.kind = "IfStatement" -> nodeListToString(n.Clauses) \o "end"
          [] n.kind = "IfClause" ->
                IF ~IsNil(n.Condition)
                THEN "if " \o String(n.Condition) \o " then\n" \o String(n.Body) \o "\n"
                ELSE "else\n" \o String(n.Body) \o "\n"
          [] n.kind = "LabelStatement" -> "::" \o String(n.Name) \o "::"
          [] n.kind = "LocalStatement" ->
                "local " \o nodeListToString(n.Names) \o " = " \o nodeListToString(n.Exps)
          [] n.kind = "RepeatStatement" ->
                "repeat\n" \o String(n.Body) \o "\nuntil " \o String(n.Condition)
          [] n.kind = "ReturnStatement" -> "return " \o nodeListToString(n.Exps)
          [] n.kind = "WhileStatement" ->
                "while " \o String(n.Condition) \o " do\n" \o String(n.Body) \o "\nend"
          [] n.kind = "BinaryExpression" ->
                "(" \o String(n.Left) \o " " \o TokenStr(n.Operator) \o " "
                    \o String(n.Right) \o ")"
          [] n.kind = "FunctionCall" ->
                String(n.Left) \o "(" \o nodeListToString(n.Args) \o ")"
          [] n.kind = "FunctionExpression" ->
                "function(" \o nodeListToString(n.Params) \o ")\n" \o String(n.Body)
                    \o "\nend"
          [] n.kind = "IndexExpression" ->
                IF n.IsBrackets
                THEN String(n.Left) \o "[" \o String(n.Inner) \o "]"
                ELSE String(n.Left) \o "." \o String(n.Inner)
          [] n.kind = "UnaryExpression" ->
                "(" \o TokenStr(n.Operator) \o String(n.Right) \o ")"
          [] n.kind = "BooleanLiteral" -> IF n.Value THEN "true" ELSE "false"
          [] n.kind \in {"Identifier", "NumberLiteral"} -> n.Literal
          [] n.kind = "StringLiteral" -> "\"" \o n.Value \o "\""
          [] n.kind = "TableLiteral" -> "{ " \o nodeListToString(n.Fields) \o " }"
          [] n.kind = "TableField" ->
                IF IsNil(n.Key) THEN String(n.Value)
                ELSE IF n.Key.kind = "Identifier"
                THEN String(n.Key) \o " = " \o String(n.Value)
                ELSE "[" \o String(n.Key) \o "] = " \o String(n.Value)
          [] OTHER -> ""

EndOK(n) ==
    CASE n.kind = "nil" -> FALSE
      [] n.kind = "Block" -> Len(n.Stmts) = 0 \/ EndOK(Last(n.Stmts))
      [] n.kind = "AssignmentStatement" -> Len(n.Exps) > 0 /\ PosOK(Last(n.Exps))
      [] n.kind = "ExpressionStatement" -> EndOK(n.Exp)
      [] n.kind = "GotoStatement" -> EndOK(n.Name)
      [] n.kind = "IfStatement" -> Len(n.Clauses) > 0 /\ EndOK(Last(n.Clauses))
      [] n.kind = "LocalStatement" ->
            IF Len(n.Exps) > 0 THEN EndOK(Last(n.Exps))
            ELSE Len(n.Names) > 0 /\ EndOK(Last(n.Names))
      [] n.kind = "RepeatStatement" -> EndOK(n.Condition)
      [] n.kind = "ReturnStatement" -> Len(n.Exps) = 0 \/ EndOK(Last(n.Exps))
      [] n.kind \in {"BinaryExpression", "UnaryExpression"} -> EndOK(n.Right)
      [] n.kind = "TableField" -> EndOK(n.Value)
      [] n.kind = "Invalid" ->
            n.Token # NoToken \/ (Len(n.Exps) > 0 /\ EndOK(Last(n.Exps)))
      [] OTHER -> TRUE

End(n) ==
    CASE n.kind = "Block" ->
            IF Len(n.Stmts) > 0 THEN n.StartPos + End(Last(n.Stmts)) ELSE n.StartPos
      [] n.kind = "AssignmentStatement" -> Pos(Last(n.Exps))
      [] n.kind = "BreakStatement" -> n.StartPos + Len(String(n))
      [] n.kind = "ExpressionStatement" -> End(n.Exp)
      [] n.kind = "GotoStatement" -> End(n.Name)
      [] n.kind = "IfStatement" -> End(Last(n.Clauses))
      [] n.kind = "LocalStatement" ->
            IF Len(n.Exps) > 0 THEN End(Last(n.Exps)) ELSE End(Last(n.Names))
      [] n.kind = "RepeatStatement" -> End(n.Condition)
      [] n.kind = "ReturnStatement" ->
            IF Len(n.Exps) > 0 THEN End(Last(n.Exps))
            ELSE n.StartPos + Len(TokenStr("RETURN"))
      [] n.kind \in {"BinaryExpression", "UnaryExpression"} -> End(n.Right)
      [] n.kind \in {"BooleanLiteral", "Identifier", "NumberLiteral", "StringLiteral"} ->
            n.StartPos + Len(String(n))
      [] n.kind = "TableField" -> End(n.Value)
      [] n.kind = "Invalid" ->
            IF n.Token # NoToken THEN TokenEnd(n.Token) ELSE End(Last(n.Exps))
      [] OTHER -> n.EndPos

(***************************************************************************)
(* The tree walk: a node's children, and every node of a tree.             *)
(***************************************************************************)
\* The children of n, in source order, nil ones included.
Children(n) ==
    CASE n.kind = "Block" -> n.Stmts
      [] n.kind = "AssignmentStatement" -> n.Vars \o n.Exps
      [] n.kind = "DoStatement" -> <<n.Body>>
      [] n.kind = "ExpressionStatement" -> <<n.Exp>>
      [] n.kind = "ForStatement" -> <<n.Name, n.Start, n.Finish, n.Step, n.Body>>
      [] n.kind = "ForInStatement" -> n.Names \o n.Exps \o <<n.Body>>
      [] n.kind = "FunctionStatement" -> <<n.Left>> \o n.Params \o <<n.Body>>
      [] n.kind \in {"GotoStatement", "LabelStatement"} -> <<n.Name>>
      [] n.kind = "IfStatement" -> n.Clauses
      [] n.kind = "IfClause" -> <<n.Condition, n.Body>>
      [] n.kind = "LocalStatement" -> n.Names \o n.Exps
      [] n.kind = "RepeatStatement" -> <<n.Body, n.Condition>>
      [] n.kind = "ReturnStatement" -> n.Exps
      [] n.kind = "WhileStatement" -> <<n.Condition, n.Body>>
      [] n.kind = "BinaryExpression" -> <<n.Left, n.Right>>
      [] n.kind = "FunctionCall" -> <<n.Left>> \o n.Args
      [] n.kind = "FunctionExpression" -> n.Params \o <<n.Body>>
      [] n.kind = "IndexExpression" -> <<n.Left, n.Inner>>
      [] n.kind = "UnaryExpression" -> <<n.Right>>
      [] n.kind = "TableLiteral" -> n.Fields
      [] n.kind = "TableField" -> <<n.Key, n.Value>>
      [] n.kind = "Invalid" -> n.Exps
      [] OTHER -> <<>>

\* The children that may be absent by design: the step of a numeric for, the
\* condition of an else clause, the key of a positional table field.
Optional(n) ==
    CASE n.kind = "ForStatement" -> {4}
      [] n.kind = "IfClause" -> {1}
      [] n.kind = "TableField" -> {1}
      [] OTHER -> {}

RECURSIVE Flatten(_)
Flatten(seqs) == IF Len(seqs) = 0 THEN <<>> ELSE Head(seqs) \o Flatten(Tail(seqs))

\* Every node of the tree rooted at n, parents before children.
RECURSIVE Walk(_)
Walk(n) ==
    IF IsNil(n) THEN <<>>
    ELSE <<n>> \o Flatten([k \in DOMAIN Children(n) |-> Walk(Children(n)[k])])

\* The shape of a tree: node kinds and operator structure, without
\* positions and literal texts.
Tag(n) ==
    CASE n.kind \in {"BinaryExpression", "UnaryExpression"} -> n.Operator
      [] n.kind = "IndexExpression" ->
            IF n.IsBrackets THEN "[]" ELSE IF n.IsColon THEN ":" ELSE "."
      [] n.kind = "FunctionStatement" -> IF n.IsLocal THEN "local" ELSE ""
      [] n.kind = "BooleanLiteral" -> IF n.Value THEN "true" ELSE "false"
      [] OTHER -> ""

\* The length of the first list among the children (names before values).
Arity(n) ==
    CASE n.kind = "AssignmentStatement" -> Len(n.Vars)
      [] n.kind \in {"LocalStatement", "ForInStatement"} -> Len(n.Names)
      [] n.kind \in {"FunctionStatement", "FunctionExpression"} -> Len(n.Params)
      [] OTHER -> 0

RECURSIVE Shape(_)
Shape(n) ==
    IF IsNil(n) THEN <<"nil">>
    ELSE <<n.kind, Tag(n), Arity(n),
           [k \in DOMAIN Children(n) |-> Shape(Children(n)[k])]>>

(***************************************************************************)
(* The state machine.  A source text is given as its lexemes, which the    *)
(* text joins with single spaces.  One parse call is one step: from "new"  *)
(* to "done" when it returns, to "aborted" when a fatal abort unwinds out  *)
(* of it, and to "hung" when it never returns.  The returned tree can then *)
(* be rendered, and the rendering parsed again.                            *)
(***************************************************************************)
VARIABLES
    lex,      \* the lexemes of the source text
    mode,     \* the entry point: "file" (ParseFile), "exp" (parseExpression),
              \* "ident" (parseIdentifier) or "number" (parseNumberLiteral)
    pc,       \* "new" | "done" | "aborted" | "hung" | "rendered" | "reparsed"
    tree,     \* the tree the parse returned
    errs,     \* its diagnostics
    cur,      \* the token the cursor is at when the parse returns
    text,     \* the canonical rendering of tree
    tree2,    \* the tree of the second parse, of text
    errs2,    \* the diagnostics of the second parse
    files,    \* Server.files: the parse result cached for each path, or nil
    bgpc,     \* the goroutine of initialized: "check" | "read" | "parse" |
              \* "store" | "storing" | "done"
    bgi,      \* the index of the path the goroutine is at
    bgfile,   \* the goroutine's local variable file
    hpc,      \* the handler being served: "idle" | "storing" | "reading"
    hpath,    \* the path of the request being served
    fatal     \* the Go runtime has stopped the process on a concurrent map access

pvars == <<lex, mode, pc, tree, errs, cur, text, tree2, errs2>>

svars == <<files, bgpc, bgi, bgfile, hpc, hpath, fatal>>

vars == <<lex, mode, pc, tree, errs, cur, text, tree2, errs2,
          files, bgpc, bgi, bgfile, hpc, hpath, fatal>>

Source == Join(lex, " ")

\* The sequences over set S of lengths lo..hi.
SeqsOf(S, lo, hi) == UNION {[1..n -> S] : n \in lo..hi}

\* Alphabets of lexemes: expressions and lists, tables, statements, unary
\* operators with calls and functions, loops, and jumps with if clauses.
Alphabets ==
    { {"a", "1", "0x1", "true", "+", ",", "=", ")"},
      {"x", "=", "{", "}", ",", ";", "[", "]"},
      {"local", "return", "a", "=", ",", "if", "then", "end"},
      {"-", "not", "a", "(", ")", "function", "end", "'s'"},
      {"for", "a", "=", "1", ",", "in", "do", "end"},
      {"while", "repeat", "until", "do", "end", "a", "false", "break"},
      {"goto", "::", "a", "if", "then", "elseif", "else", "end"} }

\* Well-formed programs longer than MaxLexemes.
Examples ==
    { <<"x", "=", "10">>,
      <<"local", "x", "return", "not", "a", ",", "-", "b", ",", "#", "c", "..", "'x'">>,
      <<"if", "a", "then", "f", "(", ")", "elseif", "b", "then", "g", "(", ")",
        "else", "h", "(", ")", "end">>,
      <<"local", "function", "f", "(", "a", ",", "b", ")", "return", "end">>,
      <<"for", "i", "=", "1", ",", "2", ",", "3", "do", "break", "end">>,
      <<"for", "k", ",", "v", "in", "f", "(", "t", ")", "do", "end">>,
      <<"while", "true", "do", "x", "=", "{", "1", ",", "k", "=", "2", ",", "[", "3",
        "]", "=", "4", ";", "}", "end">>,
      <<"repeat", "f", "'s'", "until", "a", "<", "b", "goto", "done", "::", "done",
        "::">>,
      <<"do", "x", ",", "y", "=", "function", "(", "a", ")", "end", ",", "1", "+",
        "2", "*", "3", ";", "end">>,
      <<"a", ".", "b", ":", "c", "(", "1", ")">> }

AnyTexts == UNION {SeqsOf(A, 0, MaxLexemes) : A \in Alphabets} \cup Examples

\* The lexemes of the binary operators, and one of each precedence level.
BinaryLexemes ==
    {"or", "and", "<", ">", "<=", ">=", "~=", "==", "..", "+", "-", "*", "/", "%", "^"}

LevelLexemes == {"or", "and", "<", "..", "+", "*", "^"}

OperandNames == <<"a", "b", "c", "d", "e", "f">>

\* The chain  a op1 b op2 c ...  of the operators ops.
Chain(ops) ==
    [k \in 1..(2 * Len(ops) + 1) |->
        IF k % 2 = 1 THEN OperandNames[(k + 1) \div 2] ELSE ops[k \div 2]]

\* Operator chains: of three operands over every binary operator, and of
\* more operands over one operator of each level.
ChainTexts ==
    {Chain(ops) : ops \in SeqsOf(BinaryLexemes, 2, 2)}
        \cup {Chain(ops) : ops \in SeqsOf(LevelLexemes, 3, MaxOperands - 1)}

\* Postfix chains: a primary expression, suffixes, and an optional binary
\* operator with its right operand.
Suffixes ==
    {<<".", "b">>, <<"[", "2", "]">>, <<":", "m">>, <<"(", "1", ")">>, <<"(", ")">>,
     <<"'s'">>}

Tails == {<<>>, <<"+", "2">>, <<"..", "x">>, <<"*", "y", "+", "z">>}

PostfixTexts ==
    {<<"f">> \o Flatten(ss) \o t : ss \in SeqsOf(Suffixes, 1, MaxSuffixes), t \in Tails}
        \cup {<<"a", ".", "b", ".", "c", "(", "1", ")", "[", "2", "]">>}

\* The paths of the workspace's files, in the order of env.getFiles().
Paths == 1..MaxFiles

\* The server with an empty file cache; the goroutine of initialized is at
\* the path of index i, or has finished ("done").
ServerAt(at, i) ==
    /\ files = [path \in Paths |-> Nil]
    /\ bgpc = at
    /\ bgi = i
    /\ bgfile = Nil
    /\ hpc = "idle"
    /\ hpath = 1
    /\ fatal = FALSE

Start(texts, m) ==
    /\ ServerAt("done", MaxFiles + 1)
    /\ lex \in texts
    /\ mode = m
    /\ pc = "new"
    /\ tree = Nil
    /\ errs = <<>>
    /\ cur = NoToken
    /\ text = ""
    /\ tree2 = Nil
    /\ errs2 = <<>>

Init == Start(AnyTexts, "file")

InitChains == Start(ChainTexts, "exp")

InitPostfix == Start(PostfixTexts, "exp")

\* The separated list of the first n names, with a trailing separator or
\* without.
ListText(n, sep, trailing) ==
    [k \in 1..(IF n = 0 THEN 0 ELSE IF trailing THEN 2 * n ELSE 2 * n - 1) |->
        IF k % 2 = 1 THEN OperandNames[(k + 1) \div 2] ELSE sep]

\* A table constructor of n positional fields, and a function expression of
\* n parameters with an empty body.
TableText(n, sep, trailing) == <<"{">> \o ListText(n, sep, trailing) \o <<"}">>

FunctionText(n) == <<"function", "(">> \o ListText(n, ",", FALSE) \o <<")", "end">>

ListTexts ==
    {TableText(n, sep, tr) : n \in 0..MaxFields, sep \in {",", ";"}, tr \in BOOLEAN}
        \cup {FunctionText(n) : n \in 0..MaxFields}

\* Texts for the sub-parsers: short ones whose first token may be one the
\* sub-parser cannot interpret, and the lists.
SubTexts == SeqsOf({"a", "1", "0x1", "=", ")", "true"}, 0, 2) \cup ListTexts

SubModes == {"exp", "ident", "number"}

InitSub == \E m \in SubModes : Start(SubTexts, m)

\* One parse call on text s through the entry point of the mode.
Run(s) ==
    CASE mode = "file" -> ParseFile(New(s))
      [] mode = "exp" -> parseExpression(New(s), LOWEST)
      [] mode = "ident" -> parseIdentifier(New(s))
      [] mode = "number" -> parseNumberLiteral(New(s))

\* Where a parse call that ended in state st leaves the caller: returned
\* ("done", or "reparsed" for the second parse), aborted, or hung.
Outcome(st, returned) ==
    CASE st = "ok" -> returned
      [] st = "panic" -> "aborted"
      [] st = "hang" -> "hung"

\* The return of the first parse call with result r.
ParseReturn(r) ==
    /\ pc' = Outcome(r.p.st, "done")
    /\ tree' = IF r.p.st = "ok" THEN r.n ELSE Nil
    /\ errs' = r.p.errs
    /\ cur' = tok(r.p)

Parse ==
    /\ pc = "new"
    /\ \E r \in {Run(Source)} : ParseReturn(r)
    /\ UNCHANGED <<lex, mode, text, tree2, errs2>>
    /\ UNCHANGED svars

\* String() of the returned tree, when it aborts on no nil child.
Render ==
    /\ pc = "done"
    /\ StringOK(tree)
    /\ text' = String(tree)
    /\ pc' = "rendered"
    /\ UNCHANGED <<lex, mode, tree, errs, cur, tree2, errs2>>
    /\ UNCHANGED svars

\* The return of the second parse call with result r.
ReparseReturn(r) ==
    /\ pc' = Outcome(r.p.st, "reparsed")
    /\ tree2' = IF r.p.st = "ok" THEN r.n ELSE Nil
    /\ errs2' = r.p.errs

Reparse ==
    /\ pc = "rendered"
    /\ \E r \in {Run(text)} : ReparseReturn(r)
    /\ UNCHANGED <<lex, mode, tree, errs, cur, text>>
    /\ UNCHANGED svars

Next == Parse \/ Render \/ Reparse

Spec == Init /\ [][Next]_vars

SpecChains == InitChains /\ [][Next]_vars

SpecPostfix == InitPostfix /\ [][Next]_vars

SpecSub == InitSub /\ [][Next]_vars

(***************************************************************************)
(* The language server (lsp/server.go): the file cache Server.files, the   *)
(* goroutine that initialized starts to parse the workspace's files, and   *)
(* the handlers the server dispatches meanwhile.  Server has no lock: an   *)
(* access of the map takes a step to begin and a step to end, so that      *)
(* accesses of the goroutine and of a handler can overlap.                 *)
(***************************************************************************)
\* The text of a file on disk, and the text of its document in the editor.
DiskText(path) == "x = 1"

EditorText(path) == "x = 2"

\* parser.New(src).ParseFile()
FileOf(src) == ParseFile(New(src)).n

\* The goroutine moves on to the next path of the loop.
BgContinue ==
    /\ bgi' = bgi + 1
    /\ bgpc' = IF bgi < MaxFiles THEN "check" ELSE "done"

\* if s.files[path] != nil { continue }
BgCheck ==
    /\ ~fatal /\ bgpc = "check"
    /\ IF files[bgi] # Nil
       THEN BgContinue
       ELSE bgpc' = "read" /\ bgi' = bgi
    /\ UNCHANGED <<files, bgfile, hpc, hpath, fatal>>
    /\ UNCHANGED pvars

\* src, err := os.ReadFile(path), and continue on an error.
BgRead ==
    /\ ~fatal /\ bgpc = "read"
    /\ \/ bgpc' = "parse" /\ bgi' = bgi
       \/ BgContinue
    /\ UNCHANGED <<files, bgfile, hpc, hpath, fatal>>
    /\ UNCHANGED pvars

\* file := parser.New(string(src)).ParseFile()
BgParse ==
    /\ ~fatal /\ bgpc = "parse"
    /\ bgfile' = FileOf(DiskText(bgi))
    /\ bgpc' = "store"
    /\ UNCHANGED <<files, bgi, hpc, hpath, fatal>>
    /\ UNCHANGED pvars

\* s.files[path] = &file: the write of the map begins ...
BgStoreBegin ==
    /\ ~fatal /\ bgpc = "store"
    /\ bgpc' = "storing"
    /\ UNCHANGED <<files, bgi, bgfile, hpc, hpath, fatal>>
    /\ UNCHANGED pvars

\* ... and ends.
BgStoreEnd ==
    /\ ~fatal /\ bgpc = "storing"
    /\ files' = [files EXCEPT ![bgi] = bgfile]
    /\ BgContinue
    /\ UNCHANGED <<bgfile, hpc, hpath, fatal>>
    /\ UNCHANGED pvars

\* A handler that stores the parse of a document (textDocumentDidOpen,
\* textDocumentDidChange) begins its write of the map.
HandlerStoreBegin ==
    /\ ~fatal /\ hpc = "idle"
    /\ \E path \in Paths : hpath' = path
    /\ hpc' = "storing"
    /\ UNCHANGED <<files, bgpc, bgi, bgfile, fatal>>
    /\ UNCHANGED pvars

HandlerStoreEnd ==
    /\ ~fatal /\ hpc = "storing"
    /\ files' = [files EXCEPT ![hpath] = FileOf(EditorText(hpath))]
    /\ hpc' = "idle"
    /\ UNCHANGED <<bgpc, bgi, bgfile, hpath, fatal>>
    /\ UNCHANGED pvars

\* getFile, called by the handlers that query a document: file :=
\* s.files[u.Path] begins its read of the map ...
GetFileBegin ==
    /\ ~fatal /\ hpc = "idle"
    /\ \E path \in Paths : hpath' = path
    /\ hpc' = "reading"
    /\ UNCHANGED <<files, bgpc, bgi, bgfile, fatal>>
    /\ UNCHANGED pvars

\* ... and ends.
GetFileEnd ==
    /\ ~fatal /\ hpc = "reading"
    /\ hpc' = "idle"
    /\ UNCHANGED <<files, bgpc, bgi, bgfile, hpath, fatal>>
    /\ UNCHANGED pvars

\* The Go runtime may stop the process when it finds the map written by the
\* goroutine while a handler reads or writes it ("concurrent map writes",
\* "concurrent map read and map write").
ConcurrentMapAccess ==
    /\ ~fatal /\ bgpc = "storing" /\ hpc # "idle"
    /\ fatal' = TRUE
    /\ UNCHANGED <<files, bgpc, bgi, bgfile, hpc, hpath>>
    /\ UNCHANGED pvars

NextServer ==
    \/ BgCheck \/ BgRead \/ BgParse \/ BgStoreBegin \/ BgStoreEnd
    \/ HandlerStoreBegin \/ HandlerStoreEnd \/ GetFileBegin \/ GetFileEnd
    \/ ConcurrentMapAccess

\* initialized has started its goroutine; no parse of the other
\* specifications is under way.
InitServer ==
    /\ ServerAt("check", 1)
    /\ lex = <<>>
    /\ mode = "file"
    /\ pc = "new"
    /\ tree = Nil
    /\ errs = <<>>
    /\ cur = NoToken
    /\ text = ""
    /\ tree2 = Nil
    /\ errs2 = <<>>

SpecServer == InitServer /\ [][NextServer]_vars

(***************************************************************************)
(* Properties of expression parsing, stated on operator chains             *)
(*   a op1 b op2 c ...                                                     *)
(* parsed by parseExpression(LOWEST).                                      *)
(***************************************************************************)
\* The binding level of a binary operator's lexeme, lowest first: or, and,
\* the six comparisons, concatenation, additive, multiplicative,
\* exponentiation.
Level(op) ==
    CASE op = "or" -> 1
      [] op = "and" -> 2
      [] op \in {"<", ">", "<=", ">=", "~=", "=="} -> 3
      [] op = ".." -> 4
      [] op \in {"+", "-"} -> 5
      [] op \in {"*", "/", "%"} -> 6
      [] op = "^" -> 7

\* The token type of a binary operator's lexeme.
OpType(op) == CHOOSE t \in binaryOperators : TokenStr(t) = op

\* The node of  left op right  and the node of an operand name.
Bin(left, op, right) == BinaryExpression(left, OpType(op), right)

Name(x) == Identifier(x, 0)

\* The parse of the chain has returned, at the end of the input and without
\* diagnostics.
ParsedChain ==
    pc \in {"done", "rendered", "reparsed"} /\ cur.type = "EOF" /\ errs = <<>>

\* C1: binary operators of different precedence levels nest by the table:
\* on  a op1 b op2 c  the parse yields op1(a, op2(b, c)) when op2 binds
\* tighter than op1, and op2(op1(a, b), c) when op1 binds tighter than op2.
C1_PrecedenceNesting ==
    (mode = "exp" /\ pc # "new" /\ Len(lex) = 5 /\ Level(lex[2]) # Level(lex[4])) =>
        /\ ParsedChain
        /\ tree = IF Level(lex[4]) > Level(lex[2])
                  THEN Bin(Name(lex[1]), lex[2], Bin(Name(lex[3]), lex[4], Name(lex[5])))
                  ELSE Bin(Bin(Name(lex[1]), lex[2], Name(lex[3])), lex[4], Name(lex[5]))

\* C1's case: a + b * c has been parsed as +(a, *(b, c)).
C1_Witness ==
    /\ pc = "done"
    /\ lex = <<"a", "+", "b", "*", "c">>
    /\ tree = Bin(Name("a"), "+", Bin(Name("b"), "*", Name("c")))

\* The operator at which the chain l[lo..hi] splits: one of the lowest level,
\* the leftmost of them when that level associates to the right
\* (concatenation, exponentiation) and the rightmost otherwise.
Root(l, lo, hi) ==
    LET ops == {k \in lo..hi : k % 2 = 0}
        low == {k \in ops : \A j \in ops : Level(l[k]) <= Level(l[j])}
        k0 == CHOOSE k \in low : TRUE
    IN  IF l[k0] \in {"..", "^"}
        THEN CHOOSE k \in low : \A j \in low : k <= j
        ELSE CHOOSE k \in low : \A j \in low : k >= j

\* The tree of the chain l[lo..hi] by precedence and associativity.
RECURSIVE RefTree(_, _, _)
RefTree(l, lo, hi) ==
    IF lo = hi THEN Name(l[lo])
    ELSE Bin(RefTree(l, lo, Root(l, lo, hi) - 1), l[Root(l, lo, hi)],
             RefTree(l, Root(l, lo, hi) + 1, hi))

\* Some two neighbouring operators of the chain are of the same level.
SameLevelPair(l) ==
    \E k \in 1..Len(l) : k % 2 = 0 /\ k + 2 < Len(l) /\ Level(l[k]) = Level(l[k + 2])

\* C2: operators of the same level associate as specified, concatenation and
\* exponentiation to the right and every other binary operator to the left,
\* also when the chain is the right operand of another operator: the parse
\* of a chain with two neighbouring operators of one level is the tree by
\* precedence and associativity.
C2_Associativity ==
    (mode = "exp" /\ pc # "new" /\ SameLevelPair(lex)) =>
        ParsedChain /\ tree = RefTree(lex, 1, Len(lex))

\* C2's case: a < b .. c .. d has been parsed as <(a, ..(b, ..(c, d))).
C2_Witness ==
    /\ pc = "done"
    /\ lex = <<"a", "<", "b", "..", "c", "..", "d">>
    /\ tree = Bin(Name("a"), "<", Bin(Name("b"), "..", Bin(Name("c"), "..", Name("d"))))

(***************************************************************************)
(* Properties of postfix chains: a primary expression followed by index,   *)
(* method-index and call suffixes.                                         *)
(***************************************************************************)
\* The expression e wrapped by one suffix.
Wrap(e, sfx) ==
    CASE sfx[1] = "." -> IndexExpression(e, Name(sfx[2]), FALSE, FALSE, 0)
      [] sfx[1] = ":" -> IndexExpression(e, Name(sfx[2]), FALSE, TRUE, 0)
      [] sfx[1] = "[" -> IndexExpression(e, NumberLiteral(sfx[2], 0), TRUE, FALSE, 0)
      [] sfx = <<"(", ")">> -> FunctionCall(e, <<>>, 0)
      [] sfx[1] = "(" /\ Len(sfx) = 3 -> FunctionCall(e, <<NumberLiteral(sfx[2], 0)>>, 0)
      [] OTHER -> FunctionCall(e, <<StringLiteral(Trim(sfx[1], Quotes), 0)>>, 0)

\* The expression e wrapped by the suffixes ss, the first innermost.
RECURSIVE WrapAll(_, _)
WrapAll(e, ss) == IF Len(ss) = 0 THEN e ELSE WrapAll(Wrap(e, Head(ss)), Tail(ss))

\* C3: postfix operations chain left to right onto a primary expression:
\* the parse of a primary followed by suffixes consumes the whole input and
\* yields the primary wrapped by each suffix in turn; a.b.c(1)[2] yields a
\* bracket index of a call of the index expression (a.b).c.
C3_PostfixChain ==
    /\ (mode = "exp" /\ pc # "new"
            /\ lex = <<"a", ".", "b", ".", "c", "(", "1", ")", "[", "2", "]">>) =>
          /\ pc \in {"done", "rendered", "reparsed"} /\ cur.type = "EOF"
          /\ Shape(tree) =
                Shape(WrapAll(Name("a"), << <<".", "b">>, <<".", "c">>, <<"(", "1", ")">>,
                                            <<"[", "2", "]">> >>))
    /\ \A ss \in SeqsOf(Suffixes, 1, MaxSuffixes) :
          (mode = "exp" /\ pc # "new" /\ lex = <<"f">> \o Flatten(ss)) =>
              /\ pc \in {"done", "rendered", "reparsed"} /\ cur.type = "EOF"
              /\ Shape(tree) = Shape(WrapAll(Name("f"), ss))

\* The suffixes that are call argument lists.
CallSuffixes == {<<"(", "1", ")">>, <<"(", ")">>, <<"'s'">>}

\* The leftmost operand under the binary expressions of n.
RECURSIVE LeftMost(_)
LeftMost(n) == IF n.kind = "BinaryExpression" THEN LeftMost(n.Left) ELSE n

\* C4: a call is folded into the growing expression before the binary
\* operator loop looks at the next token: the parse of a primary, a call
\* argument list, and binary operators with their operands yields a binary
\* expression whose leftmost operand is the call, and leaves no operator
\* token unconsumed.
C4_CallBeforeBinary ==
    \A call \in CallSuffixes, t \in Tails \ {<<>>} :
        (mode = "exp" /\ pc # "new" /\ lex = <<"f">> \o call \o t) =>
            /\ pc \in {"done", "rendered", "reparsed"} /\ cur.type = "EOF"
            /\ tree.kind = "BinaryExpression"
            /\ LeftMost(tree) = Wrap(Name("f"), call)

(***************************************************************************)
(* Properties of a parse call on arbitrary input.                          *)
(***************************************************************************)
\* The parse call has returned a tree.
Returned == pc \in {"done", "rendered", "reparsed"}

\* C5: parsing always completes: on every token sequence, well-formed or
\* not, a parse call reaches its terminal state and returns a tree; no loop
\* of the parser iterates forever without consuming a token.  Every step
\* that is a parse call ends in the call's return, never in a hang.
C5_ParsingCompletes ==
    [][/\ pc = "new" => pc' = "done" /\ tree'.kind = "Block"
       /\ pc = "rendered" => pc' = "reparsed" /\ tree2'.kind = "Block"]_vars

\* C5's case: the parse of a text with a NUMBER token whose conversion fails
\* and a token that cannot start an expression has returned, with
\* diagnostics.
C5_Witness ==
    /\ pc = "done"
    /\ lex = <<"a", "=", "0x1", ")">>
    /\ Len(errs) > 0
    /\ tree.kind = "Block"

\* C6: no fatal abort unwinds out of a parse call, of the panic branch of
\* parseBooleanLiteral in particular: failures are only in the diagnostics.
C6_NoFatalAbort == pc # "aborted"

\* C6's case: parseBooleanLiteral has parsed a TRUE token and returned.
C6_Witness ==
    /\ pc = "done"
    /\ lex = <<"a", "=", "true">>
    /\ tree.Stmts[1].Exps[1] = BooleanLiteral(TRUE, 0)

\* The nodes of the tree t.
Nodes(t) == Bind(Walk(t), LAMBDA w : {w[k] : k \in DOMAIN w})

\* Node n holds no nil child but one absent by design.
NoNilChild(n) ==
    \A k \in DOMAIN Children(n) : IsNil(Children(n)[k]) => k \in Optional(n)

\* C7: the returned tree stays fully position-addressable: no node of it
\* holds a nil child that Pos(), End() or String() dereferences, so Pos()
\* and End() are defined for every node, with diagnostics or without.
C7_PositionAddressable ==
    Returned => \A n \in Nodes(tree) : NoNilChild(n) /\ PosOK(n) /\ EndOK(n)

\* C8: every Invalid node of a returned tree carries an offending token or
\* a non-empty list of partially parsed expressions, its Pos() and End() are
\* defined, and its range is not empty: End() > Pos().
C8_InvalidRange ==
    Returned =>
        \A n \in Nodes(tree) :
            n.kind = "Invalid" =>
                /\ n.Token # NoToken \/ Len(n.Exps) > 0
                /\ PosOK(n) /\ EndOK(n)
                /\ End(n) > Pos(n)

\* Pos() and End() are defined for n and for each child it holds.
Addressable(n) ==
    /\ PosOK(n) /\ EndOK(n)
    /\ \A k \in DOMAIN Children(n) :
          ~IsNil(Children(n)[k]) => PosOK(Children(n)[k]) /\ EndOK(Children(n)[k])

\* C9: each node reports its own sub-range: the range of a node encloses
\* the range of each of its children, a Block ends where its last statement
\* ends, and an assignment ends where its last right-hand expression ends.
C9_SubRange ==
    Returned =>
        \A n \in Nodes(tree) :
            Addressable(n) =>
                /\ \A k \in DOMAIN Children(n) :
                      ~IsNil(Children(n)[k]) =>
                          /\ Pos(n) <= Pos(Children(n)[k])
                          /\ End(Children(n)[k]) <= End(n)
                /\ (n.kind = "Block" /\ Len(n.Stmts) > 0) => End(n) = End(Last(n.Stmts))
                /\ n.kind = "AssignmentStatement" => End(n) = End(Last(n.Exps))

\* C10: canonical rendering round-trips in shape: for an input parsed
\* without diagnostics, String() of the tree parses again without
\* diagnostics, to a tree of the same node kinds and operator structure.
C10_RoundTrip ==
    (errs = <<>> /\ pc \notin {"new", "done", "rendered"}) =>
        pc = "reparsed" /\ errs2 = <<>> /\ Shape(tree2) = Shape(tree)

(***************************************************************************)
(* Properties of the sub-parsers called on their own.                      *)
(***************************************************************************)
\* The first token of the source text.
FirstToken == Lex(Source)[1]

\* The sub-parser of the mode cannot interpret the first token: parseIdentifier
\* on a non-identifier, parseExpression on a token that starts no expression,
\* parseNumberLiteral on a NUMBER whose conversion fails.
MissingAtFirst ==
    CASE mode = "ident" -> FirstToken.type # "IDENT"
      [] mode = "exp" -> FirstToken.type \notin PrimaryStart
      [] mode = "number" -> FirstToken.type = "NUMBER" /\ ~ParseFloatOk(FirstToken.lit)
      [] OTHER -> FALSE

\* C11: when a required token is missing, the responsible sub-parser
\* (parseIdentifier, parseExpression, parseNumberLiteral) records a
\* diagnostic and leaves the cursor unchanged, on the offending token.
C11_CursorUnchanged ==
    (pc = "done" /\ MissingAtFirst) => Len(errs) > 0 /\ cur = FirstToken

\* C12: empty lists in valid source parse cleanly: a table constructor of n
\* fields, n = 0 included and also with a trailing separator, yields a table
\* literal of n fields, and a function expression of n parameters, n = 0
\* included, yields n parameters; the whole text is consumed and no
\* diagnostic is recorded.
C12_EmptyLists ==
    (mode = "exp" /\ pc # "new") =>
        /\ \A n \in 0..MaxFields, sep \in {",", ";"}, tr \in BOOLEAN :
              lex = TableText(n, sep, tr) =>
                  /\ Returned /\ errs = <<>> /\ cur.type = "EOF"
                  /\ tree.kind = "TableLiteral" /\ Len(tree.Fields) = n
        /\ \A n \in 0..MaxFields :
              lex = FunctionText(n) =>
                  /\ Returned /\ errs = <<>> /\ cur.type = "EOF"
                  /\ tree.kind = "FunctionExpression" /\ Len(tree.Params) = n

(***************************************************************************)
(* Properties of the server's file cache.                                  *)
(***************************************************************************)
\* C13: the background initial parse never replaces an entry already in the
\* file cache: no step of the goroutine changes an entry that is present
\* (no store happens between its existence check and its own store), and
\* no handler reads or writes the map while the goroutine is writing it.
C13_NoOverwrite ==
    /\ [][<<bgpc, bgi>>' # <<bgpc, bgi>> =>
              \A path \in Paths : files[path] # Nil => files'[path] = files[path]]_vars
    /\ [](~(bgpc = "storing" /\ hpc # "idle"))

====
